---- MODULE Spec2Model ----
(***************************************************************************)
(* TimePlanner: the interactive timeline editor of src/main.py.            *)
(*                                                                         *)
(* The state is the BarWidget (segment list, drag-tracking fields, cached  *)
(* paint geometry) together with the few TimePlannerApp fields that the    *)
(* handlers read.  One action per event handler.  Python lists are 0-based *)
(* and TLA+ sequences 1-based: indices (_drag_idx, new_pos, section_idx)   *)
(* keep the 0-based value of the code and element i is sections[i + 1].    *)
(*                                                                         *)
(* Pixel positions are floats in the code, (minutes / total_minutes) *     *)
(* bar_width.  Every comparison of a pointer coordinate with such a        *)
(* position is written here cross-multiplied by total_minutes, in exact    *)
(* integers.                                                               *)
(***************************************************************************)
EXTENDS Integers, Sequences, FiniteSets, TLC

VARIABLES
    total_minutes,      \* BarWidget.total_minutes
    sections,           \* BarWidget.sections: sequence of TimeSection records
    _drag_idx,          \* BarWidget._drag_idx (None or 0-based index)
    _drag_offset,       \* BarWidget._drag_offset, in units of 1/total_minutes px
    _drag_x,            \* BarWidget._drag_x
    _drag_y,            \* BarWidget._drag_y
    _drag_section,      \* BarWidget._drag_section (None or DragRef, see TimeSection)
    scale10,            \* TimePlannerApp.scale_factor, in tenths
    _last_width,        \* BarWidget._last_width
    _cached_bar_width,  \* BarWidget._cached_bar_width
    crashed,            \* an exception escaped an event handler
    tools_combined,     \* tools_combined of _fill_docx_template, <<>> before an export
    _translation_manager,  \* translation._translation_manager
    _translation_cache, \* TranslationManager._translation_cache
    lastOp              \* the handler that ran last, with its inputs and outcome

vars == <<total_minutes, sections, _drag_idx, _drag_offset, _drag_x, _drag_y,
          _drag_section, scale10, _last_width, _cached_bar_width,
          crashed, tools_combined, _translation_manager, _translation_cache,
          lastOp>>

dragVars == <<_drag_idx, _drag_offset, _drag_x, _drag_y, _drag_section>>
paintVars == <<_last_width, _cached_bar_width>>
trVars == <<_translation_manager, _translation_cache>>

----------------------------------------------------------------------------
(* Bounds of the model *)

\* segments added to the timeline of the example session
MaxSections == 3
\* zoom_in steps above scale 1.0
MaxZoomSteps == 1

----------------------------------------------------------------------------
(* Program constants *)

MARGIN == 80
BAR_HEIGHT == 120
BASE_WIDTH == 1300
BASE_HEIGHT == 340
SCALE_MAX10 == 25
SCALE_MIN10 == 5
SPIN_MIN == 1

\* Python's None, for the drag-tracking fields
None == -1

\* get_nice_color(idx): packed RGB of hsv(idx * 137.508 mod 360, 0.5, 0.95)
NiceColorTable ==
    <<15890809, 7991964, 12548594, 15917945, 7986674, 15890874, 9958009, 8288754>>

get_nice_color(idx) == NiceColorTable[idx + 1]

----------------------------------------------------------------------------
(* Inputs *)

\* Pointer positions of the 15-minute session: x on a grid of 38 px (half a
\* minute of the bar at scale 1.0), y inside the bar (170) or above it (0).
HalfMinuteX(j) == MARGIN + j * 38
PressPositions == {<<HalfMinuteX(j), 170>> : j \in {3, 10, 13, 23}} \cup {<<HalfMinuteX(3), 0>>}
MovePositions == {<<HalfMinuteX(8), 0>>}
ReleaseXs == {HalfMinuteX(j) : j \in {-1, 2, 5, 8, 15, 18, 28}}

\* Pointer positions of the example session (100 minutes): x on a grid of
\* 57 px (five minutes of the bar at scale 1.0), y inside the bar.
FiveMinuteX(k) == MARGIN + k * 57
ExamplePressPositions == {<<FiveMinuteX(k), 170>> : k \in {1, 4, 8}}
ExampleReleaseXs == {FiveMinuteX(k) : k \in {0, 1, 2, 4, 5, 8}}

\* what the user leaves in an Add/Edit dialog when pressing OK; the duration
\* is the number typed into the spin box, which the spin box bounds
DialogInput(name, duration, organisation, explanation, tools) ==
    [name |-> name, duration |-> duration, organisation |-> organisation,
     explanation |-> explanation, tools |-> tools]

\* OK pressed with the name left empty
NoInput == DialogInput("", 1, "organization_exercise", "", "")

\* OK pressed with a blank typed as the name
BlankInput == DialogInput(" ", 1, "organization_exercise", "", "")

\* the session of 15 minutes
DialogInputs ==
    { DialogInput("A", 5, "organization_exercise", "", "3 cones, 1 goal"),
      DialogInput("B", 10, "organization_game", "2v2", "6 cones"),
      NoInput }

\* the session of the reorder example: 100 minutes, A(10), B(20), C(15)
ExampleInputs ==
    { DialogInput("A", 10, "organization_exercise", "", "3 cones, 1 goal"),
      DialogInput("B", 20, "organization_game", "2v2", "6 cones"),
      DialogInput("C", 15, "organization_exercise", "", "12 cones, 2 bibs") }

----------------------------------------------------------------------------
(* TimeSection and helpers *)

\* A TimeSection object.  The program holds one reference to a TimeSection
\* outside the list, _drag_section; the object it refers to carries
\* ref = TRUE, every other object ref = FALSE, and _drag_section itself is
\* DragRef or None.
DragRef == 1

TimeSection(start, duration, name, color, organisation, explanation, tools) ==
    [ref |-> FALSE, start |-> start, duration |-> duration, name |-> name,
     color |-> color, organisation |-> organisation,
     explanation |-> explanation, tools |-> tools]

end_time(s) == s.start + s.duration

RECURSIVE SumDurations(_)
SumDurations(seq) ==
    IF seq = <<>> THEN 0
    ELSE seq[1].duration + SumDurations(Tail(seq))

\* the starts left as they are: a mutation without the re-derivation loop
RecalcStartsKept(seq) == seq

\* the "Startzeiten neu berechnen" loop: cur = 0; s.start = cur; cur += s.duration
RecalcStarts(seq) ==
    [i \in 1 .. Len(seq) |->
        [seq[i] EXCEPT !.start = SumDurations(SubSeq(seq, 1, i - 1))]]

\* list.pop() without its index: the last element goes
PopLast(seq, idx) == SubSeq(seq, 1, Len(seq) - 1)

\* list.pop(idx) for a valid 0-based idx
Pop(seq, idx) == SubSeq(seq, 1, idx) \o SubSeq(seq, idx + 2, Len(seq))

\* list.insert(pos, x) for 0 <= pos <= len
Insert(seq, pos, x) == SubSeq(seq, 1, pos) \o <<x>> \o SubSeq(seq, pos + 1, Len(seq))

\* QSpinBox.setRange(lo, hi): a maximum below the minimum becomes the minimum
SpinMax(lo, hi) == IF hi < lo THEN lo ELSE hi

\* a spin box whose range has no lower end
SpinValueNoFloor(lo, hi, v) ==
    IF v > SpinMax(lo, hi) THEN SpinMax(lo, hi) ELSE v

\* the value a QSpinBox with range (lo, hi) holds after v was entered
SpinValue(lo, hi, v) ==
    IF v < lo THEN lo
    ELSE IF v > SpinMax(lo, hi) THEN SpinMax(lo, hi)
    ELSE v

Width == (BASE_WIDTH * scale10) \div 10
Height == (BASE_HEIGHT * scale10) \div 10
BarY == Height \div 2 - BAR_HEIGHT \div 2

Op(op, res) == [op |-> op, res |-> res]

\* a handler ran that wrote no field of the timeline or of the drag
Noop == Op("noop", "none")

----------------------------------------------------------------------------
(* Texts.  A text is a string; its characters are looked up in Chars. *)

\* the characters of the texts the sessions type into the dialogs
Chars ==
    "" :> <<>>
    @@ " " :> <<" ">>
    @@ "," :> <<",">>
    @@ "A" :> <<"A">>
    @@ "B" :> <<"B">>
    @@ "C" :> <<"C">>
    @@ "T" :> <<"T">>
    @@ "2v2" :> <<"2", "v", "2">>
    @@ "3 cones, 1 goal" :> <<"3", " ", "c", "o", "n", "e", "s", ",", " ", "1", " ", "g", "o", "a", "l">>
    @@ "6 cones" :> <<"6", " ", "c", "o", "n", "e", "s">>
    @@ "12 cones, 2 bibs" :> <<"1", "2", " ", "c", "o", "n", "e", "s", ",", " ", "2", " ", "b", "i", "b", "s">>
    @@ "3 cones" :> <<"3", " ", "c", "o", "n", "e", "s">>
    @@ "0 cones" :> <<"0", " ", "c", "o", "n", "e", "s">>
    @@ "cones" :> <<"c", "o", "n", "e", "s">>
    @@ "5 cones" :> <<"5", " ", "c", "o", "n", "e", "s">>
    @@ " , " :> <<" ", ",", " ">>
    @@ "2 bibs, 12 cones, 1 goal" :> <<"2", " ", "b", "i", "b", "s", ",", " ", "1", "2", " ", "c", "o", "n", "e", "s", ",", " ", "1", " ", "g", "o", "a", "l">>
    @@ "2 Zone, bibs" :> <<"2", " ", "Z", "o", "n", "e", ",", " ", "b", "i", "b", "s">>

IsSpace(c) == c = " "

\* str.strip()
Strip(text) ==
    LET solid == {i \in 1 .. Len(text) : ~IsSpace(text[i])}
    IN  IF solid = {} THEN <<>>
        ELSE SubSeq(text, CHOOSE i \in solid : \A j \in solid : i <= j,
                          CHOOSE i \in solid : \A j \in solid : j <= i)

\* the text taken as typed
StripTextNone(t) == t

\* strip() of every text, as a string again
Stripped == [t \in DOMAIN Chars |-> CHOOSE u \in DOMAIN Chars : Chars[u] = Strip(Chars[t])]

\* text.strip() of a dialog field
StripText(t) == Stripped[t]

\* AddSectionDialog.get_values and EditSectionDialog.get_values: name,
\* explanation and tools are stripped; the duration is the spin box's
get_values(v) ==
    [v EXCEPT !.name = StripText(v.name),
              !.explanation = StripText(v.explanation),
              !.tools = StripText(v.tools)]

----------------------------------------------------------------------------
(* translation.py: the state of a TranslationManager.  A dict is a function *)
(* from its keys.                                                           *)

EmptyDict == [k \in {} |-> ""]

\* a TranslationManager object; made = FALSE stands for None
Manager(language, translations, fallback_translations, missing_keys) ==
    [made |-> TRUE, language |-> language, translations |-> translations,
     fallback_translations |-> fallback_translations,
     _missing_keys |-> missing_keys]

NoManager ==
    [made |-> FALSE, language |-> "", translations |-> EmptyDict,
     fallback_translations |-> EmptyDict, _missing_keys |-> {}]

----------------------------------------------------------------------------
Init ==
    /\ total_minutes = 15
    /\ sections = <<>>
    /\ _drag_idx = None
    /\ _drag_offset = 0
    /\ _drag_x = None
    /\ _drag_y = None
    /\ _drag_section = None
    /\ scale10 = 10
    /\ _last_width = 0
    /\ _cached_bar_width = 0
    /\ crashed = FALSE
    /\ tools_combined = <<>>
    /\ _translation_manager = NoManager
    /\ _translation_cache = EmptyDict
    /\ lastOp = Op("init", "ok")

----------------------------------------------------------------------------
(* TimePlannerApp.add_section *)

AddStart == IF sections # <<>> THEN end_time(sections[Len(sections)]) ELSE 0

\* the whole session length, whatever is planned already
AddMaxDurationWhole == total_minutes

AddMaxDuration == total_minutes - AddStart

AddSection(accepted, v) ==
    /\ ~crashed
    /\ LET start == AddStart
           max_duration == AddMaxDuration
           values == get_values(v)
           duration == SpinValue(SPIN_MIN, max_duration, v.duration)
       IN  IF max_duration <= 0
           THEN /\ lastOp' = Op("add", "full")
                /\ UNCHANGED sections
           ELSE IF ~accepted
           THEN /\ lastOp' = Noop
                /\ UNCHANGED sections
           ELSE IF values.name = ""
           THEN /\ lastOp' = Op("add", "noname")
                /\ UNCHANGED sections
           ELSE /\ sections' = Append(sections,
                       TimeSection(start, duration, values.name,
                                   get_nice_color(Len(sections)),
                                   values.organisation, values.explanation,
                                   values.tools))
                /\ lastOp' = Op("add", "ok")
    /\ UNCHANGED <<total_minutes, trVars, tools_combined, dragVars, scale10, paintVars, crashed>>

----------------------------------------------------------------------------
(* BarWidget hit tests *)

\* x_start <= x <= x_end for pixel positions MARGIN + (minute / total_minutes) * bar_width
InSpan(s, x, bar_width) ==
    /\ s.start * bar_width <= (x - MARGIN) * total_minutes
    /\ (x - MARGIN) * total_minutes <= end_time(s) * bar_width

FirstIndex(S) == IF S = {} THEN None ELSE CHOOSE i \in S : \A j \in S : i <= j

\* the search taking the last span that holds x instead of the first
FindSectionAtPointLast(x, y, bar_y) ==
    IF ~(/\ MARGIN <= x /\ x <= Width - MARGIN
         /\ bar_y <= y /\ y <= bar_y + BAR_HEIGHT)
    THEN None
    ELSE LET S == {i \in 0 .. Len(sections) - 1 :
                      InSpan(sections[i + 1], x, _cached_bar_width)}
         IN  IF S = {} THEN None ELSE CHOOSE i \in S : \A j \in S : j <= i

\* BarWidget._find_section_at_point: 0-based index of the first hit, or None
FindSectionAtPoint(x, y, bar_y) ==
    IF ~(/\ MARGIN <= x /\ x <= Width - MARGIN
         /\ bar_y <= y /\ y <= bar_y + BAR_HEIGHT)
    THEN None
    ELSE FirstIndex({i \in 0 .. Len(sections) - 1 :
                        InSpan(sections[i + 1], x, _cached_bar_width)})

\* QRectF(x_start, bar_y, x_end - x_start, bar_height).contains(x, y):
\* edges included, a rectangle of zero width contains nothing
RectContains(s, x, y, bar_y, bar_width) ==
    /\ s.duration * bar_width # 0
    /\ InSpan(s, x, bar_width)
    /\ bar_y <= y /\ y <= bar_y + BAR_HEIGHT

\* the search loop of show_context_menu (and of the hover branch of mouseMoveEvent)
ContextHit(x, y) ==
    FirstIndex({i \in 0 .. Len(sections) - 1 :
                   RectContains(sections[i + 1], x, y, BarY, Width - 2 * MARGIN)})

----------------------------------------------------------------------------
(* BarWidget.mousePressEvent, left button *)

MousePressLeft(x, y) ==
    /\ ~crashed
    /\ LET idx == FindSectionAtPoint(x, y, BarY)
       IN  IF idx # None
           THEN /\ _drag_idx' = idx
                /\ _drag_offset' = (x - MARGIN) * total_minutes
                                     - sections[idx + 1].start * _cached_bar_width
                /\ _drag_x' = x
                /\ _drag_y' = y
                /\ _drag_section' = DragRef
                /\ sections' = [i \in 1 .. Len(sections) |->
                                   [sections[i] EXCEPT !.ref = (i = idx + 1)]]
                /\ lastOp' = Op("press", "hit")
           ELSE /\ UNCHANGED <<dragVars, sections>>
                /\ lastOp' = Noop
    /\ UNCHANGED <<total_minutes, trVars, tools_combined, scale10, paintVars, crashed>>

\* BarWidget.mousePressEvent, a button that is neither left nor right
MousePressOther ==
    /\ ~crashed
    /\ lastOp' = Noop
    /\ UNCHANGED <<total_minutes, trVars, tools_combined, sections, dragVars, scale10, paintVars, crashed>>

----------------------------------------------------------------------------
(* BarWidget.mouseMoveEvent *)

\* a move that also re-centres the grab on the pointer
MouseMoveRegrab(x, y) ==
    /\ ~crashed
    /\ IF _drag_idx # None /\ _drag_section # None
       THEN /\ _drag_x' = x
            /\ _drag_y' = y
            /\ _drag_offset' = 0
            /\ lastOp' = Op("move", "drag")
            /\ UNCHANGED <<_drag_idx, _drag_section>>
       ELSE /\ lastOp' = Noop
            /\ UNCHANGED dragVars
    /\ UNCHANGED <<total_minutes, trVars, tools_combined, sections, scale10, paintVars, crashed>>

MouseMove(x, y) ==
    /\ ~crashed
    /\ IF _drag_idx # None /\ _drag_section # None
       THEN /\ _drag_x' = x
            /\ _drag_y' = y
            /\ lastOp' = Op("move", "drag")
            /\ UNCHANGED <<_drag_idx, _drag_offset, _drag_section>>
       ELSE /\ lastOp' = Noop
            /\ UNCHANGED dragVars
    /\ UNCHANGED <<total_minutes, trVars, tools_combined, sections, scale10, paintVars, crashed>>

----------------------------------------------------------------------------
(* BarWidget.mouseReleaseEvent *)

\* the for/else loop that resolves new_pos; total2 is 2 * total_minutes * total
RECURSIVE WalkNewPos(_, _, _, _, _, _)
WalkNewPos(seq, drag_idx, rel_x, bar_width, i, total2) ==
    IF i >= Len(seq) THEN Len(seq) - 1
    ELSE IF i = drag_idx THEN WalkNewPos(seq, drag_idx, rel_x, bar_width, i + 1, total2)
    ELSE IF 2 * total_minutes * rel_x < total2 + seq[i + 1].duration * bar_width
         THEN i
         ELSE WalkNewPos(seq, drag_idx, rel_x, bar_width, i + 1,
                         total2 + 2 * seq[i + 1].duration * bar_width)

\* rel_x taken as the widget x, the margin not subtracted
NewPosNoMargin(seq, drag_idx, x) ==
    WalkNewPos(seq, drag_idx, x, Width - 2 * MARGIN, 0, 0)

NewPos(seq, drag_idx, x) ==
    WalkNewPos(seq, drag_idx, x - MARGIN, Width - 2 * MARGIN, 0, 0)

\* seg = sections.pop(_drag_idx); sections.insert(new_pos, seg)
MoveSection(seq, drag_idx, new_pos) ==
    Insert(Pop(seq, drag_idx), new_pos, seq[drag_idx + 1])

\* _drag_section = None drops the only outside reference
Unref(seq) == [i \in 1 .. Len(seq) |-> [seq[i] EXCEPT !.ref = FALSE]]

MouseRelease(x) ==
    /\ ~crashed
    /\ IF _drag_idx # None /\ _drag_section # None
       THEN LET new_pos == NewPos(sections, _drag_idx, x)
            IN  IF new_pos # _drag_idx /\ _drag_idx >= Len(sections)
                THEN \* sections.pop raises IndexError
                     /\ crashed' = TRUE
                     /\ lastOp' = Op("release", "IndexError")
                     /\ UNCHANGED <<sections, dragVars>>
                ELSE /\ sections' = Unref(RecalcStarts(
                            IF new_pos # _drag_idx
                            THEN MoveSection(sections, _drag_idx, new_pos)
                            ELSE sections))
                     /\ _drag_idx' = None
                     /\ _drag_section' = None
                     /\ _drag_x' = None
                     /\ _drag_y' = None
                     /\ UNCHANGED <<_drag_offset, crashed>>
                     /\ lastOp' = Op("release", IF new_pos # _drag_idx THEN "moved" ELSE "same")
       ELSE /\ lastOp' = Noop
            /\ UNCHANGED <<sections, dragVars, crashed>>
    /\ UNCHANGED <<total_minutes, trVars, tools_combined, scale10, paintVars>>

\* the buttons a release event can carry; mouseReleaseEvent never reads
\* event.button(), so the handler runs alike for each of them
ReleaseButtons == {"left", "middle"}

MouseReleaseEvent(button, x) == MouseRelease(x)

----------------------------------------------------------------------------
(* Right button: show_context_menu, edit_section, delete_section and         *)
(* TimePlannerApp.edit_section_dialog.  The menu and the dialogs are modal:  *)
(* the handler returns when the user has answered them.                      *)

\* the whole session length, the other sections not subtracted
EditMaxDurationWhole(section_idx) == total_minutes

\* remaining_time of BarWidget.edit_section
EditMaxDuration(section_idx) ==
    total_minutes - (SumDurations(sections) - sections[section_idx + 1].duration)

\* the update done by building a new TimeSection in the place of the old
UpdateSectionRebuilt(s, max_duration, v) ==
    TimeSection(s.start, SpinValue(SPIN_MIN, max_duration, v.duration), v.name,
                get_nice_color(Len(sections)), v.organisation, v.explanation,
                v.tools)

\* the fields written by the update branch of edit_section_dialog
UpdateSection(s, max_duration, v) ==
    [s EXCEPT !.name = v.name,
              !.duration = SpinValue(SPIN_MIN, max_duration, v.duration),
              !.organisation = v.organisation,
              !.explanation = v.explanation,
              !.tools = v.tools]

\* TimePlannerApp.edit_section_dialog: answer is "ok", "cancel" or "delete"
\* (the delete button, confirmed)
EditSectionDialog(section_idx, max_duration, answer, v) ==
    IF answer = "cancel"
    THEN /\ lastOp' = Noop
         /\ UNCHANGED sections
    ELSE IF answer = "delete"
    THEN /\ sections' = RecalcStarts(Pop(sections, section_idx))
         /\ lastOp' = Op("edit", "delete")
    ELSE IF get_values(v).name = ""
    THEN /\ lastOp' = Op("edit", "noname")
         /\ UNCHANGED sections
    ELSE /\ sections' = RecalcStarts(
                [sections EXCEPT ![section_idx + 1] =
                    UpdateSection(sections[section_idx + 1], max_duration,
                                  get_values(v))])
         /\ lastOp' = Op("edit", "ok")

\* BarWidget.edit_section
EditSection(section_idx, answer, v) ==
    IF section_idx >= Len(sections)
    THEN /\ lastOp' = Noop
         /\ UNCHANGED sections
    ELSE EditSectionDialog(section_idx, EditMaxDuration(section_idx), answer, v)

\* BarWidget.delete_section
DeleteSection(section_idx, confirmed) ==
    IF section_idx >= Len(sections)
    THEN /\ lastOp' = Noop
         /\ UNCHANGED sections
    ELSE IF confirmed
    THEN /\ sections' = RecalcStarts(Pop(sections, section_idx))
         /\ lastOp' = Op("delete", "yes")
    ELSE /\ lastOp' = Noop
         /\ UNCHANGED sections

\* what the user answers to the context menu and to the dialog behind it
ContextAnswers(inputs) ==
    {<<"dismiss", "cancel", NoInput>>,
     <<"delete", "ok", NoInput>>, <<"delete", "cancel", NoInput>>,
     <<"edit", "cancel", NoInput>>, <<"edit", "delete", NoInput>>}
    \cup {<<"edit", "ok", v>> : v \in inputs}

\* BarWidget.mousePressEvent, right button
MousePressRight(x, y, choice, answer, v) ==
    /\ ~crashed
    /\ LET idx == ContextHit(x, y)
       IN  IF idx = None
           THEN /\ lastOp' = Noop
                /\ UNCHANGED sections
           ELSE IF choice = "edit" THEN EditSection(idx, answer, v)
           ELSE IF choice = "delete" THEN DeleteSection(idx, answer = "ok")
           ELSE /\ lastOp' = Noop
                /\ UNCHANGED sections
    /\ UNCHANGED <<total_minutes, trVars, tools_combined, dragVars, scale10, paintVars, crashed>>

----------------------------------------------------------------------------
(* TimePlannerApp.reset_plan *)

ResetPlan(confirmed) ==
    /\ ~crashed
    /\ IF confirmed
       THEN /\ sections' = <<>>
            /\ lastOp' = Op("reset", "yes")
       ELSE /\ lastOp' = Noop
            /\ UNCHANGED sections
    /\ UNCHANGED <<total_minutes, trVars, tools_combined, dragVars, scale10, paintVars, crashed>>

----------------------------------------------------------------------------
(* TimePlannerApp.import_excel *)

\* a spreadsheet cell: an integer, a text, or empty (NaN)
Cell(kind, int, str) == [kind |-> kind, int |-> int, str |-> str]
IntCell(n) == Cell("int", n, "")
StrCell(t) == Cell("str", 0, t)
NaN == Cell("nan", 0, "")

\* column_mappings
NameColumns == <<"Abschnitt", "Section", "Name">>
DurationColumns == <<"Dauer (min)", "Duration (min)", "Duration">>
ColorColumns == <<"Farbe", "Color">>
OrganisationColumns == <<"Organisation", "Organization">>
ExplanationColumns == <<"Erklaerung", "Explanation">>
ToolsColumns == <<"Hilfsmittel", "Tools">>

\* the outcome of a call: a value, or an exception
Returned(c) == [raised |-> FALSE, value |-> c]
Raised == [raised |-> TRUE, value |-> NaN]

\* TimePlannerApp._get_column_value: "col in row and pd.notna(row[col])" reads
\* the name pd, which no scope of the method binds: NameError as soon as one
\* of the columns is in the row
GetColumnValue(row, possible_columns, default) ==
    IF \E i \in 1 .. Len(possible_columns) : possible_columns[i] \in DOMAIN row
    THEN Raised
    ELSE Returned(default)

IsBlank(c) == c.kind = "str" /\ c.str \in {"", " "}

\* the body of the row loop: an exception, a skipped row, or a TimeSection
ImportRow(row, cur_start, count) ==
    LET name == GetColumnValue(row, NameColumns, StrCell(""))
        duration == GetColumnValue(row, DurationColumns, IntCell(0))
        color_hex == GetColumnValue(row, ColorColumns, StrCell("#cccccc"))
        organisation == GetColumnValue(row, OrganisationColumns,
                                       StrCell("organization_exercise"))
        explanation == GetColumnValue(row, ExplanationColumns, StrCell(""))
        tools == GetColumnValue(row, ToolsColumns, StrCell(""))
    IN  IF \/ name.raised \/ duration.raised \/ color_hex.raised
           \/ organisation.raised \/ explanation.raised \/ tools.raised
           \/ name.value.kind # "str"
        THEN [result |-> "raise", section |-> <<>>]
        ELSE IF IsBlank(name.value) \/ duration.value.kind # "int"
                \/ duration.value.int <= 0
        THEN [result |-> "skip", section |-> <<>>]
        ELSE [result |-> "row",
              section |-> <<TimeSection(cur_start, duration.value.int, name.value.str,
                               IF color_hex.value.kind = "int"
                               THEN color_hex.value.int
                               ELSE get_nice_color(count),
                               organisation.value.str, explanation.value.str,
                               tools.value.str)>>]

\* the row loop: "raise", or the list of sections built
RECURSIVE ImportRows(_, _, _)
ImportRows(rows, i, acc) ==
    IF i > Len(rows) THEN [result |-> "done", sections |-> acc]
    ELSE LET r == ImportRow(rows[i], SumDurations(acc), Len(acc))
         IN  IF r.result = "raise" THEN [result |-> "raise", sections |-> <<>>]
             ELSE ImportRows(rows, i + 1, acc \o r.section)

\* what the file dialog and the file system hand to import_excel
ImportFile(path, pandas, readable, rows) ==
    [path |-> path, pandas |-> pandas, readable |-> readable, rows |-> rows]

ImportFiles ==
    { ImportFile("", TRUE, TRUE, <<>>),
      ImportFile("plan.xlsx", FALSE, TRUE, <<>>),
      ImportFile("plan.xlsx", TRUE, FALSE, <<>>),
      ImportFile("plan.xlsx", TRUE, TRUE, <<>>),
      ImportFile("plan.xlsx", TRUE, TRUE,
                 << [x \in {"Titel"} |-> StrCell("A")] >>),
      ImportFile("plan.xlsx", TRUE, TRUE,
                 << [x \in {"Name", "Duration"} |->
                        IF x = "Name" THEN StrCell("A") ELSE IntCell(10)],
                    [x \in {"Name", "Duration"} |->
                        IF x = "Name" THEN StrCell("B") ELSE IntCell(10)] >>) }

\* an import that empties the timeline before it reads the file
ImportExcelClearing(f) ==
    /\ ~crashed
    /\ LET imported == ImportRows(f.rows, 1, <<>>)
       IN  IF f.path = ""
           THEN /\ lastOp' = Noop
                /\ UNCHANGED sections
           ELSE IF \/ ~f.pandas \/ ~f.readable \/ f.rows = <<>>
                   \/ imported.result = "raise" \/ imported.sections = <<>>
           THEN /\ lastOp' = Op("import", "failed")
                /\ sections' = <<>>
           ELSE /\ sections' = imported.sections
                /\ lastOp' = Op("import", "ok")
    /\ UNCHANGED <<total_minutes, trVars, tools_combined, dragVars, scale10, paintVars, crashed>>

ImportExcel(f) ==
    /\ ~crashed
    /\ LET imported == ImportRows(f.rows, 1, <<>>)
       IN  IF f.path = ""
           THEN /\ lastOp' = Noop
                /\ UNCHANGED sections
           ELSE IF \/ ~f.pandas \/ ~f.readable \/ f.rows = <<>>
                   \/ imported.result = "raise" \/ imported.sections = <<>>
           THEN /\ lastOp' = Op("import", "failed")
                /\ UNCHANGED sections
           ELSE /\ sections' = imported.sections
                /\ lastOp' = Op("import", "ok")
    /\ UNCHANGED <<total_minutes, trVars, tools_combined, dragVars, scale10, paintVars, crashed>>

----------------------------------------------------------------------------
(* TimePlannerApp.zoom_in, zoom_out (apply_scale resizes the bar) and        *)
(* BarWidget.paintEvent                                                      *)

ZoomIn ==
    /\ ~crashed
    /\ scale10 < 10 + MaxZoomSteps
    /\ scale10' = IF scale10 + 1 < SCALE_MAX10 THEN scale10 + 1 ELSE SCALE_MAX10
    /\ lastOp' = Noop
    /\ UNCHANGED <<total_minutes, trVars, tools_combined, sections, dragVars, paintVars, crashed>>

ZoomOut ==
    /\ ~crashed
    /\ scale10 > 10
    /\ scale10' = IF scale10 - 1 > SCALE_MIN10 THEN scale10 - 1 ELSE SCALE_MIN10
    /\ lastOp' = Noop
    /\ UNCHANGED <<total_minutes, trVars, tools_combined, sections, dragVars, paintVars, crashed>>

PaintEvent ==
    /\ ~crashed
    /\ IF Width # _last_width
       THEN /\ _last_width' = Width
            /\ _cached_bar_width' = Width - 2 * MARGIN
       ELSE UNCHANGED paintVars
    /\ lastOp' = Noop
    /\ UNCHANGED <<total_minutes, trVars, tools_combined, sections, dragVars, scale10, crashed>>

Next ==
    \/ \E accepted \in BOOLEAN, v \in DialogInputs : AddSection(accepted, v)
    \/ \E p \in PressPositions : MousePressLeft(p[1], p[2])
    \/ \E p \in PressPositions, a \in ContextAnswers(DialogInputs) :
            MousePressRight(p[1], p[2], a[1], a[2], a[3])
    \/ MousePressOther
    \/ \E p \in MovePositions : MouseMove(p[1], p[2])
    \/ \E b \in ReleaseButtons, x \in ReleaseXs : MouseReleaseEvent(b, x)
    \/ \E confirmed \in BOOLEAN : ResetPlan(confirmed)
    \/ \E f \in ImportFiles : ImportExcel(f)
    \/ PaintEvent

Spec == Init /\ [][Next]_vars

----------------------------------------------------------------------------
(* The session of the reorder example *)

InitExample ==
    /\ total_minutes = 100
    /\ sections = <<>>
    /\ _drag_idx = None
    /\ _drag_offset = 0
    /\ _drag_x = None
    /\ _drag_y = None
    /\ _drag_section = None
    /\ scale10 = 10
    /\ _last_width = 0
    /\ _cached_bar_width = 0
    /\ crashed = FALSE
    /\ tools_combined = <<>>
    /\ _translation_manager = NoManager
    /\ _translation_cache = EmptyDict
    /\ lastOp = Op("init", "ok")

NextExample ==
    \/ Len(sections) < MaxSections /\ \E v \in ExampleInputs : AddSection(TRUE, v)
    \/ \E p \in ExamplePressPositions : MousePressLeft(p[1], p[2])
    \/ \E p \in ExamplePressPositions : MousePressRight(p[1], p[2], "delete", "ok", NoInput)
    \/ \E x \in ExampleReleaseXs : MouseRelease(x)
    \/ PaintEvent

SpecExample == InitExample /\ [][NextExample]_vars

----------------------------------------------------------------------------
(* A session whose dialogs ask the spin box for a value below its range *)

\* setValue with 0, below the range of the spin box, and with 2; OK with
\* no name and with a blank name
SpinInputs ==
    {DialogInput("A", 0, "organization_exercise", "", "3 cones"),
     DialogInput("B", 2, "organization_game", "2v2", ""),
     NoInput, BlankInput}

SpinPressPositions == {<<HalfMinuteX(j), 170>> : j \in {1, 5}}
SpinReleaseXs == {HalfMinuteX(j) : j \in {-1, 9}}

NextSpin ==
    \/ Len(sections) < MaxSections /\ \E v \in SpinInputs : AddSection(TRUE, v)
    \/ \E p \in SpinPressPositions : MousePressLeft(p[1], p[2])
    \/ \E p \in SpinPressPositions, a \in ContextAnswers(SpinInputs) :
            MousePressRight(p[1], p[2], a[1], a[2], a[3])
    \/ \E x \in SpinReleaseXs : MouseRelease(x)
    \/ ResetPlan(TRUE)
    \/ \E f \in ImportFiles : ImportExcel(f)
    \/ PaintEvent

SpecSpin == Init /\ [][NextSpin]_vars

----------------------------------------------------------------------------
(* A session that zooms: the bar is resized between paints and presses *)

NextZoom ==
    \/ Len(sections) < MaxSections /\ \E v \in DialogInputs : AddSection(TRUE, v)
    \/ ZoomIn
    \/ ZoomOut
    \/ PaintEvent
    \/ \E p \in PressPositions : MousePressLeft(p[1], p[2])
    \/ \E x \in ReleaseXs : MouseRelease(x)

SpecZoom == Init /\ [][NextZoom]_vars

----------------------------------------------------------------------------
(* Vocabulary of the properties *)

\* what a segment is apart from its place on the timeline
Fields(s) ==
    [name |-> s.name, duration |-> s.duration, color |-> s.color,
     organisation |-> s.organisation, explanation |-> s.explanation,
     tools |-> s.tools]

FieldsOf(seq) == [i \in 1 .. Len(seq) |-> Fields(seq[i])]
Names(seq) == [i \in 1 .. Len(seq) |-> seq[i].name]
Durations(seq) == [i \in 1 .. Len(seq) |-> seq[i].duration]
Starts(seq) == [i \in 1 .. Len(seq) |-> seq[i].start]

Contiguous(seq) ==
    /\ seq # <<>> => seq[1].start = 0
    /\ \A i \in 1 .. Len(seq) - 1 : seq[i + 1].start = seq[i].start + seq[i].duration

Dragging == _drag_idx # None /\ _drag_section # None

\* 0-based index of the segment _drag_section refers to, None when that
\* object is no longer in the list
DraggedIndex == FirstIndex({i \in 0 .. Len(sections) - 1 : sections[i + 1].ref})

\* seq without its element at 0-based index k
Without(seq, k) ==
    [i \in 1 .. Len(seq) - 1 |-> IF i <= k THEN seq[i] ELSE seq[i + 1]]

\* how often the fields f occur in seq
Count(seq, f) == Cardinality({i \in 1 .. Len(seq) : Fields(seq[i]) = f})

\* minutes of the segments before 0-based index i, the one at drag left out
RECURSIVE MinutesBefore(_, _, _)
MinutesBefore(seq, drag, i) ==
    IF i = 0 THEN 0
    ELSE MinutesBefore(seq, drag, i - 1) + (IF i - 1 = drag THEN 0 ELSE seq[i].duration)

\* the index a release at x resolves to, stated over pixel widths
\* duration / total_minutes * bar width (both sides times 2 * total_minutes)
ResolvedIndex(seq, drag, x) ==
    LET bar_width == Width - 2 * MARGIN
        hits == {i \in 0 .. Len(seq) - 1 :
                    /\ i # drag
                    /\ 2 * total_minutes * (x - MARGIN)
                         < 2 * MinutesBefore(seq, drag, i) * bar_width
                             + seq[i + 1].duration * bar_width}
    IN  IF hits = {} THEN Len(seq) - 1 ELSE FirstIndex(hits)

----------------------------------------------------------------------------
(* Properties of the timeline *)

\* C1: contiguity.  In every state reached from the empty timeline the first
\* segment starts at 0 and every segment starts where its predecessor ends.
C1_Contiguity == Contiguous(sections)

\* a release has moved a segment of a three-segment timeline and the starts
\* were derived again
C1_Witness ==
    /\ lastOp = Op("release", "moved")
    /\ Len(sections) = 3
    /\ sections[3].start > 0

\* C2: capacity.  In every reachable state the durations of all segments add
\* up to at most total_minutes.
C2_Capacity == SumDurations(sections) <= total_minutes

\* an append has filled the timeline to the last minute
C2_Witness ==
    /\ lastOp = Op("add", "ok")
    /\ Len(sections) >= 2
    /\ SumDurations(sections) = total_minutes

\* the section a context-menu edit answered with OK and input v acts on
EditOkStep(k, v) ==
    \E p \in PressPositions :
        /\ ContextHit(p[1], p[2]) = k
        /\ MousePressRight(p[1], p[2], "edit", "ok", v)

\* C3: rejection before mutation.  add_section run with no capacity left
\* (total_minutes minus the end of the last segment <= 0) leaves the sequence
\* as it is; an append stores a duration of at most total_minutes minus the
\* sum of the existing durations; an edit stores a duration of at most
\* total_minutes minus the sum of the other segments' durations.
C3_CappedBeforeMutation ==
    [][ /\ \A accepted \in BOOLEAN, v \in DialogInputs :
              (total_minutes - AddStart <= 0 /\ AddSection(accepted, v))
                  => sections' = sections
        /\ \A v \in DialogInputs :
              (Len(sections') = Len(sections) + 1 /\ AddSection(TRUE, v))
                  => sections'[Len(sections')].duration
                         <= total_minutes - SumDurations(sections)
        /\ \A k \in 0 .. Len(sections) - 1, v \in DialogInputs :
              (v.name # "" /\ lastOp' = Op("edit", "ok") /\ EditOkStep(k, v))
                  => sections'[k + 1].duration
                         <= total_minutes
                              - (SumDurations(sections) - sections[k + 1].duration)
      ]_vars

\* add_section has just refused to open its dialog on a full timeline
C3_Witness ==
    /\ lastOp = Op("add", "full")
    /\ sections # <<>>
    /\ SumDurations(sections) = total_minutes

\* C4: the reorder example.  With total 100 and A(10), B(20), C(15) at starts
\* 0, 10, 30, a drag of A released at a rel_x past B's midpoint and before
\* C's start gives the order B, A, C with starts 0, 20, 30.
C4_ReorderExample ==
    [][ \A x \in ExampleReleaseXs :
          ( /\ total_minutes = 100
            /\ Names(sections) = <<"A", "B", "C">>
            /\ Durations(sections) = <<10, 20, 15>>
            /\ Starts(sections) = <<0, 10, 30>>
            /\ Dragging /\ _drag_idx = 0 /\ DraggedIndex = 0
            /\ 2 * total_minutes * (x - MARGIN)
                   > (2 * sections[2].start + sections[2].duration) * (Width - 2 * MARGIN)
            /\ total_minutes * (x - MARGIN) < sections[3].start * (Width - 2 * MARGIN)
            /\ MouseRelease(x) )
          => /\ Names(sections') = <<"B", "A", "C">>
             /\ Starts(sections') = <<0, 20, 30>>
      ]_vars

\* C5: release index resolution.  On a release while dragging, the index the
\* handler resolves is the first i, walking the sequence and skipping the
\* dragged index, with rel_x < (widths walked before i) + width_i / 2, and the
\* last index when there is none; the segment taken from the dragged index is
\* put at that index.
C5_ReleaseIndex ==
    [][ \A x \in ReleaseXs :
          (Dragging /\ lastOp'.op = "release" /\ MouseRelease(x))
          => LET r == ResolvedIndex(sections, _drag_idx, x)
             IN  /\ NewPos(sections, _drag_idx, x) = r
                 /\ ~crashed'
                      => /\ Fields(sections'[r + 1]) = Fields(sections[_drag_idx + 1])
                         /\ Without(FieldsOf(sections'), r)
                              = Without(FieldsOf(sections), _drag_idx)
      ]_vars

\* a release on a timeline of two segments was resolved and carried out
C5_Witness ==
    /\ lastOp.op = "release"
    /\ ~crashed
    /\ Len(sections) = 2
    /\ sections[1].name # sections[2].name

\* C6: a reorder is a pure move.  After any release of a drag the sequence
\* holds the same segments with the same fields, the segments that were not
\* dragged keep their order, and the dragged segment, the one _drag_section
\* refers to, is at the resolved index.
C6_PureMove ==
    [][ \A x \in ReleaseXs :
          (Dragging /\ MouseRelease(x))
          => LET new_pos == NewPos(sections, _drag_idx, x)
             IN  /\ Len(sections') = Len(sections)
                 /\ \A i \in 1 .. Len(sections) :
                        Count(sections', Fields(sections[i]))
                            = Count(sections, Fields(sections[i]))
                 /\ DraggedIndex # None
                      => /\ Fields(sections'[new_pos + 1])
                              = Fields(sections[DraggedIndex + 1])
                         /\ Without(FieldsOf(sections'), new_pos)
                              = Without(FieldsOf(sections), DraggedIndex)
      ]_vars

\* C7: idempotence of a reorder.  A release that resolves to the index the
\* dragged segment is at leaves names, durations, order and starts as they
\* were.
C7_Idempotence ==
    [][ \A x \in ReleaseXs :
          ( /\ Dragging
            /\ DraggedIndex # None
            /\ NewPos(sections, _drag_idx, x) = DraggedIndex
            /\ MouseRelease(x) )
          => /\ FieldsOf(sections') = FieldsOf(sections)
             /\ Starts(sections') = Starts(sections)
      ]_vars

\* the section a confirmed delete acts on: choice "delete" answered "ok" is
\* the context menu's delete, choice "edit" answered "delete" the dialog's
DeleteStep(k, choice, answer) ==
    \E p \in PressPositions :
        /\ ContextHit(p[1], p[2]) = k
        /\ MousePressRight(p[1], p[2], choice, answer, NoInput)

\* C8: deletion.  Deleting the segment at index k, by the context menu or by
\* the edit dialog's delete button, removes that segment only, keeps the
\* others in order and leaves starts contiguous from 0; from three segments
\* it leaves two, the second starting at the first one's duration.
C8_Deletion ==
    [][ \A k \in 0 .. Len(sections) - 1,
           a \in {<<"delete", "ok">>, <<"edit", "delete">>} :
          (Len(sections') < Len(sections) /\ DeleteStep(k, a[1], a[2]))
          => /\ FieldsOf(sections') = Without(FieldsOf(sections), k)
             /\ Contiguous(sections')
             /\ Len(sections) = 3
                  => /\ Len(sections') = 2
                     /\ sections'[2].start = sections'[1].duration
      ]_vars

\* a delete has just taken one of three segments away
C8_Witness ==
    /\ lastOp \in {Op("delete", "yes"), Op("edit", "delete")}
    /\ Len(sections) = 2

\* C9: every segment of the timeline has a duration of at least 1.
C9_PositiveDuration == \A i \in 1 .. Len(sections) : sections[i].duration >= 1

\* the spin box was asked for 0 and the appended segment got 1
C9_Witness ==
    /\ lastOp = Op("add", "ok")
    /\ sections[Len(sections)].name = "A"
    /\ sections[Len(sections)].duration = SPIN_MIN

\* C10: a pointer move during a drag writes _drag_x and _drag_y only; the
\* sequence, with every start and duration, the dragged index, the grab
\* offset and the dragged reference stay as they are.
C10_MoveFrame ==
    [][ \A p \in MovePositions :
          (Dragging /\ MouseMove(p[1], p[2]))
          => /\ sections' = sections
             /\ _drag_idx' = _drag_idx
             /\ _drag_offset' = _drag_offset
             /\ _drag_section' = _drag_section
             /\ total_minutes' = total_minutes
             /\ _drag_x' = p[1]
             /\ _drag_y' = p[2]
      ]_vars

\* the pointer has moved during a drag and the drag is still on
C10_Witness ==
    /\ lastOp = Op("move", "drag")
    /\ Dragging
    /\ _drag_x = HalfMinuteX(8)
    /\ _drag_y = 0

----------------------------------------------------------------------------
(* Properties of the drag state machine *)

\* C11: only the release of the left button resolves a drag.  A release of
\* another button during a drag leaves the sequence and every drag field as
\* they are.
C11_OtherButtonRelease ==
    [][ \A b \in ReleaseButtons \ {"left"}, x \in ReleaseXs :
          (Dragging /\ lastOp'.op = "release" /\ MouseReleaseEvent(b, x))
          => /\ sections' = sections
             /\ _drag_idx' = _drag_idx
             /\ _drag_section' = _drag_section
             /\ _drag_x' = _drag_x
             /\ _drag_y' = _drag_y
             /\ _drag_offset' = _drag_offset
      ]_vars

\* C12: every release handled during a drag ends idle with _drag_idx,
\* _drag_offset, _drag_x, _drag_y and _drag_section back at their cleared
\* values (None, 0, None, None, None), whatever was handled between press
\* and release.
C12_ReleaseClears ==
    [][ \A x \in ReleaseXs :
          (Dragging /\ lastOp'.op = "release" /\ MouseRelease(x))
          => /\ ~crashed'
             /\ _drag_idx' = None
             /\ _drag_offset' = 0
             /\ _drag_x' = None
             /\ _drag_y' = None
             /\ _drag_section' = None
      ]_vars

\* C13: the context menu is offered only while idle.  A right press during
\* a drag neither edits nor deletes a segment.
C13_MenuOnlyIdle ==
    [][ \A p \in PressPositions, a \in ContextAnswers(DialogInputs) :
          (Dragging /\ MousePressRight(p[1], p[2], a[1], a[2], a[3]))
          => sections' = sections
      ]_vars

\* pointer positions on every half minute of the bar, the segment
\* boundaries among them, at the height of the bar's middle
HitXs == {HalfMinuteX(j) : j \in 0 .. 30}
HitY == 170

\* the segments whose span, as _find_section_at_point lays it out, holds x
SpanMatches(x) ==
    {i \in 0 .. Len(sections) - 1 : InSpan(sections[i + 1], x, _cached_bar_width)}

\* the segments whose rectangle, as show_context_menu and the hover test
\* lay it out, contains (x, y)
RectMatches(x, y) ==
    {i \in 0 .. Len(sections) - 1 :
        RectContains(sections[i + 1], x, y, BarY, Width - 2 * MARGIN)}

\* C14: hit-test uniqueness.  On a contiguous timeline whose segments all
\* have positive width, a pointer position matches at most one segment, in
\* _find_section_at_point and in the rectangle test of the context menu and
\* of the hover alike.
C14_HitUnique ==
    ( /\ Contiguous(sections)
      /\ \A i \in 1 .. Len(sections) :
            /\ sections[i].duration * (Width - 2 * MARGIN) > 0
            /\ sections[i].duration * _cached_bar_width > 0 )
    => \A x \in HitXs :
          /\ Cardinality(SpanMatches(x)) <= 1
          /\ Cardinality(RectMatches(x, HitY)) <= 1

----------------------------------------------------------------------------
(* TimePlannerApp._combine_tools_intelligently and its caller               *)
(* _fill_docx_template.  A text is the sequence of its characters.          *)

\* ord(c) of the characters that occur
Ord ==
    " " :> 32 @@ "," :> 44 @@ "0" :> 48 @@ "1" :> 49 @@ "2" :> 50 @@ "3"
    :> 51 @@ "5" :> 53 @@ "6" :> 54 @@ "Z" :> 90 @@ "a" :> 97 @@ "b" :> 98
    @@ "c" :> 99 @@ "e" :> 101 @@ "g" :> 103 @@ "i" :> 105 @@ "l" :> 108
    @@ "n" :> 110 @@ "o" :> 111 @@ "s" :> 115

Digits == <<"0", "1", "2", "3", "4", "5", "6", "7", "8", "9">>
IsDigit(c) == \E d \in 1 .. 10 : Digits[d] = c

\* tr('docx_no_tools'): the translated text, or the key itself when the
\* translation is missing; one text that is never empty
NoToolsText == <<"docx_no_tools">>

\* str.split(',')
RECURSIVE Split(_)
Split(text) ==
    LET commas == {i \in 1 .. Len(text) : text[i] = ","}
    IN  IF commas = {} THEN <<text>>
        ELSE LET c == CHOOSE i \in commas : \A j \in commas : i <= j
             IN  <<SubSeq(text, 1, c - 1)>> \o Split(SubSeq(text, c + 1, Len(text)))

\* [tool.strip() for tool in section.tools.split(',') if tool.strip()]
ToolsList(text) ==
    LET parts == Split(text)
        NonEmpty(t) == t # <<>>
    IN  SelectSeq([i \in 1 .. Len(parts) |-> Strip(parts[i])], NonEmpty)

\* length of the longest prefix of text from position i on whose characters
\* satisfy the class: digits (TRUE) or white space (FALSE)
RECURSIVE RunLength(_, _, _)
RunLength(text, i, digits) ==
    IF i > Len(text) THEN 0
    ELSE IF (digits /\ IsDigit(text[i])) \/ (~digits /\ IsSpace(text[i]))
    THEN 1 + RunLength(text, i + 1, digits)
    ELSE 0

\* quantity_pattern.match(tool) for ^(\d+)\s+(.+)$ : the groups, if it matches.
\* \d+ and \s+ are greedy and what follows a run is outside its class, so
\* only the longest runs can match.
QuantityMatch(tool) ==
    LET n == RunLength(tool, 1, TRUE)
        m == RunLength(tool, n + 1, FALSE)
    IN  IF n >= 1 /\ m >= 1 /\ n + m < Len(tool)
        THEN [matched |-> TRUE, group1 |-> SubSeq(tool, 1, n),
              group2 |-> SubSeq(tool, n + m + 1, Len(tool))]
        ELSE [matched |-> FALSE, group1 |-> <<>>, group2 |-> <<>>]

\* int(digits)
RECURSIVE ParseInt(_)
ParseInt(ds) ==
    IF ds = <<>> THEN 0
    ELSE 10 * ParseInt(SubSeq(ds, 1, Len(ds) - 1))
           + ((CHOOSE d \in 1 .. 10 : Digits[d] = ds[Len(ds)]) - 1)

\* str(n) for n >= 0
RECURSIVE FormatInt(_)
FormatInt(n) ==
    IF n < 10 THEN <<Digits[n + 1]>>
    ELSE FormatInt(n \div 10) \o <<Digits[(n % 10) + 1]>>

Max(a, b) == IF a >= b THEN a ELSE b

\* tool_quantities after one entry of a tools list; the dict is a function
\* from tool names to quantities
UpdateQuantities(tool_quantities, tool) ==
    LET match == QuantityMatch(tool)
        known == DOMAIN tool_quantities
    IN  IF match.matched
        THEN LET quantity == ParseInt(match.group1)
                 tool_name == Strip(match.group2)
                 old == IF tool_name \in known THEN tool_quantities[tool_name] ELSE 0
             IN  [n \in known \cup {tool_name} |->
                     IF n = tool_name THEN Max(old, quantity) ELSE tool_quantities[n]]
        ELSE IF tool \notin known
        THEN [n \in known \cup {tool} |-> IF n = tool THEN 0 ELSE tool_quantities[n]]
        ELSE tool_quantities

\* the inner loop: for tool in tools_list
RECURSIVE AddTools(_, _)
AddTools(tool_quantities, tools_list) ==
    IF tools_list = <<>> THEN tool_quantities
    ELSE AddTools(UpdateQuantities(tool_quantities, Head(tools_list)), Tail(tools_list))

\* the outer loop: for section in self.bar.sections
RECURSIVE ToolQuantities(_, _)
ToolQuantities(secs, tool_quantities) ==
    IF secs = <<>> THEN tool_quantities
    ELSE ToolQuantities(Tail(secs),
             IF Chars[Head(secs).tools] = <<>> THEN tool_quantities
             ELSE AddTools(tool_quantities, ToolsList(Chars[Head(secs).tools])))

\* a < b for Python strings: by code point, a proper prefix first
RECURSIVE StrLess(_, _)
StrLess(a, b) ==
    IF b = <<>> THEN FALSE
    ELSE IF a = <<>> THEN TRUE
    ELSE IF Ord[Head(a)] # Ord[Head(b)] THEN Ord[Head(a)] < Ord[Head(b)]
    ELSE StrLess(Tail(a), Tail(b))

\* sorted(keys, reverse=True)
RECURSIVE SortedReverse(_)
SortedReverse(keys) ==
    IF keys = {} THEN <<>>
    ELSE LET greatest == CHOOSE a \in keys : \A b \in keys \ {a} : StrLess(b, a)
         IN  <<greatest>> \o SortedReverse(keys \ {greatest})

\* sorted(keys)
RECURSIVE Sorted(_)
Sorted(keys) ==
    IF keys = {} THEN <<>>
    ELSE LET least == CHOOSE a \in keys : \A b \in keys \ {a} : StrLess(a, b)
         IN  <<least>> \o Sorted(keys \ {least})

\* f"{quantity} {tool_name}" if quantity > 0, else tool_name
FinalTool(tool_quantities, tool_name) ==
    IF tool_quantities[tool_name] > 0
    THEN FormatInt(tool_quantities[tool_name]) \o <<" ">> \o tool_name
    ELSE tool_name

\* ', '.join(final_tools)
RECURSIVE Join(_)
Join(final_tools) ==
    IF final_tools = <<>> THEN <<>>
    ELSE IF Len(final_tools) = 1 THEN final_tools[1]
    ELSE final_tools[1] \o <<",", " ">> \o Join(Tail(final_tools))

\* the merge without its two early returns
CombineWithoutSentinel(secs) ==
    LET tool_quantities == ToolQuantities(secs, <<>>)
        names == Sorted(DOMAIN tool_quantities)
    IN  Join([i \in 1 .. Len(names) |-> FinalTool(tool_quantities, names[i])])

_combine_tools_intelligently(secs) ==
    IF secs = <<>> THEN NoToolsText
    ELSE LET tool_quantities == ToolQuantities(secs, <<>>)
         IN  IF DOMAIN tool_quantities = {} THEN NoToolsText
             ELSE LET names == Sorted(DOMAIN tool_quantities)
                  IN  Join([i \in 1 .. Len(names) |->
                               FinalTool(tool_quantities, names[i])])

\* TimePlannerApp.export_docx: ready says that python-docx and the template
\* are there and a file name was chosen; _fill_docx_template then merges the
\* tools
ExportDocx(ready) ==
    /\ ~crashed
    /\ IF sections # <<>> /\ ready
       THEN /\ tools_combined' =
                  (IF _combine_tools_intelligently(sections) = <<>> THEN NoToolsText
                   ELSE _combine_tools_intelligently(sections))
            /\ lastOp' = Op("export_docx", "ok")
       ELSE /\ lastOp' = Noop
            /\ UNCHANGED tools_combined
    /\ UNCHANGED <<total_minutes, trVars, sections, dragVars, scale10, paintVars, crashed>>

\* TimePlannerApp.export_excel: path is the file name chosen ("" when the
\* dialog was cancelled), written says that pandas was there and the file
\* could be written
ExportExcel(path, written) ==
    /\ ~crashed
    /\ lastOp' = IF path = "" \/ sections = <<>> THEN Noop
                 ELSE Op("export_excel", IF written THEN "ok" ELSE "failed")
    /\ UNCHANGED <<total_minutes, trVars, tools_combined, sections, dragVars, scale10,
                   paintVars, crashed>>

\* TimePlannerApp.export_png: bar.grab() renders the bar, which runs its
\* paintEvent; saved is the result of pixmap.save
ExportPng(path, saved) ==
    /\ ~crashed
    /\ IF path = ""
       THEN /\ lastOp' = Noop
            /\ UNCHANGED paintVars
       ELSE /\ IF Width # _last_width
               THEN /\ _last_width' = Width
                    /\ _cached_bar_width' = Width - 2 * MARGIN
               ELSE UNCHANGED paintVars
            /\ lastOp' = Op("export_png", IF saved THEN "ok" ELSE "failed")
    /\ UNCHANGED <<total_minutes, trVars, tools_combined, sections, dragVars, scale10, crashed>>

\* the file name a save dialog returns
SavePaths == {"", "plan"}

\* the session of the tools: 100 minutes, sections of 10 minutes
ToolsInputs ==
    {DialogInput("T", 10, "organization_exercise", "", t) :
        t \in {"3 cones, 1 goal", "6 cones", "12 cones, 2 bibs", "0 cones", "cones",
               "5 cones", "", " , ", "2 Zone, bibs"}}

NextTools ==
    \/ Len(sections) < MaxSections /\ \E v \in ToolsInputs : AddSection(TRUE, v)
    \/ \E ready \in BOOLEAN : ExportDocx(ready)
    \/ \E path \in SavePaths, written \in BOOLEAN : ExportExcel(path, written)
    \/ \E path \in SavePaths, saved \in BOOLEAN : ExportPng(path, saved)
    \/ \E f \in ImportFiles : ImportExcel(f)

SpecTools == InitExample /\ [][NextTools]_vars

(* Properties of the tools merge. A sighting is one non-empty entry of one
   section's tools field; the report is read back from the merged text. *)

Exported == lastOp = Op("export_docx", "ok")

Sightings ==
    UNION {{ToolsList(Chars[sections[i].tools])[k] :
               k \in 1 .. Len(ToolsList(Chars[sections[i].tools]))} :
           i \in 1 .. Len(sections)}

Quantified(entry) == QuantityMatch(entry).matched

NameOf(entry) ==
    IF Quantified(entry) THEN Strip(QuantityMatch(entry).group2) ELSE entry

QuantityOf(entry) == ParseInt(QuantityMatch(entry).group1)

SeenNames == {NameOf(e) : e \in Sightings}

SeenQuantities(name) ==
    {QuantityOf(e) : e \in {d \in Sightings : Quantified(d) /\ NameOf(d) = name}}

Greatest(S) == CHOOSE m \in S : \A q \in S : q <= m

\* the entries of the merged text, in order
Reported == ToolsList(tools_combined)

ToolsOfSections == [i \in 1 .. Len(sections) |-> sections[i].tools]

\* C16: after an export, every tool name with at least one quantified
\* sighting is reported with the greatest quantity seen for it, and the
\* tools "3 cones, 1 goal", "6 cones", "12 cones, 2 bibs" merge to
\* "2 bibs, 12 cones, 1 goal".
C16_MaxReduction ==
    Exported =>
        /\ \A name \in SeenNames :
              SeenQuantities(name) # {} =>
                  \E k \in 1 .. Len(Reported) :
                      /\ Quantified(Reported[k])
                      /\ NameOf(Reported[k]) = name
                      /\ QuantityOf(Reported[k]) = Greatest(SeenQuantities(name))
        /\ ToolsOfSections = <<"3 cones, 1 goal", "6 cones", "12 cones, 2 bibs">>
              => tools_combined = Chars["2 bibs, 12 cones, 1 goal"]

\* C17: after an export, a tool name is rendered "<quantity> <name>" when a
\* quantity was recorded for it in some sighting, the quantity 0 included,
\* and as the bare name only when every sighting of it was unquantified; the
\* single entry "0 cones" is rendered "0 cones".
C17_MarkerDistinct ==
    Exported =>
        /\ \A name \in SeenNames :
              IF SeenQuantities(name) # {}
              THEN \E k \in 1 .. Len(Reported) :
                      Quantified(Reported[k]) /\ NameOf(Reported[k]) = name
              ELSE \E k \in 1 .. Len(Reported) : Reported[k] = name
        /\ ToolsOfSections = <<"0 cones">> => tools_combined = Chars["0 cones"]

\* the sections in another order
Reordered(p) == [i \in 1 .. Len(sections) |-> sections[p[i]]]

\* C18: a name seen both unquantified and quantified is reported with the
\* greatest quantified value, whatever the order of the sections; one more
\* unquantified sighting of a tracked name leaves the quantities as they are.
C18_OrderIndependent ==
    /\ \A p \in Permutations(1 .. Len(sections)) :
          _combine_tools_intelligently(Reordered(p))
              = _combine_tools_intelligently(sections)
    /\ \A name \in SeenNames :
          AddTools(ToolQuantities(sections, <<>>), <<name>>)
              = ToolQuantities(sections, <<>>)
    /\ Exported =>
          \A name \in SeenNames :
              (name \in Sightings /\ SeenQuantities(name) # {}) =>
                  \E k \in 1 .. Len(Reported) :
                      Reported[k] = FormatInt(Greatest(SeenQuantities(name)))
                                        \o <<" ">> \o name

\* the names seen in one section
SectionNames(i) ==
    {NameOf(ToolsList(Chars[sections[i].tools])[k]) :
        k \in 1 .. Len(ToolsList(Chars[sections[i].tools]))}

\* the names of the merged text, in order
ReportedNames == [k \in 1 .. Len(Reported) |-> NameOf(Reported[k])]

\* C19: after an export of sections with at least one tool, the merged text
\* is its entries joined with ", ", the names of the entries are exactly the
\* distinct names seen, and they stand in strictly ascending code-point order
\* (so each name stands once).
C19_SortedOnce ==
    (Exported /\ SeenNames # {}) =>
        /\ tools_combined = Join(Reported)
        /\ {ReportedNames[k] : k \in 1 .. Len(Reported)} = SeenNames
        /\ Len(Reported) = Cardinality(SeenNames)
        /\ \A k \in 1 .. Len(Reported) - 1 :
              StrLess(ReportedNames[k], ReportedNames[k + 1])

C19_Witness ==
    /\ Exported
    /\ Cardinality(SeenNames) >= 3
    /\ Len(Reported) >= 3
    /\ ReportedNames[1] = <<"Z", "o", "n", "e">>
    /\ ReportedNames[2] = <<"b", "i", "b", "s">>
    /\ \E i, j \in 1 .. Len(sections) :
          i # j /\ SectionNames(i) \cap SectionNames(j) # {}

\* C20: the merge of no sections, and of sections whose tools fields hold no
\* non-empty entry, is the 'no tools' text; the merge is never the empty
\* text, and neither is the text an export puts into the document.
C20_NoToolsSentinel ==
    /\ _combine_tools_intelligently(<<>>) = NoToolsText
    /\ Sightings = {} => _combine_tools_intelligently(sections) = NoToolsText
    /\ _combine_tools_intelligently(sections) # <<>>
    /\ Exported => tools_combined = _combine_tools_intelligently(sections)

C20_Witness ==
    /\ Exported
    /\ Len(sections) >= 2
    /\ \E i \in 1 .. Len(sections) : sections[i].tools = ","
    /\ \E i \in 1 .. Len(sections) : sections[i].tools = ""
    /\ Sightings = {}
    /\ tools_combined = NoToolsText

----------------------------------------------------------------------------
(* Properties of the dialogs, of import and export, and of the colours *)

\* a name of no characters or of blanks only
BlankName(name) == \A i \in 1 .. Len(Chars[name]) : Chars[name][i] = " "

\* C21: an add dialog accepted with an empty or blank name appends nothing,
\* and an edit dialog accepted with such a name changes nothing: the
\* sequence is the same before and after.
C21_EmptyNameRejected ==
    [][ \A v \in SpinInputs :
          BlankName(v.name) =>
              /\ AddSection(TRUE, v) => sections' = sections
              /\ \A p \in SpinPressPositions :
                    MousePressRight(p[1], p[2], "edit", "ok", v)
                        => sections' = sections
      ]_vars

\* an edit dialog was accepted without a name on a timeline of two segments
C21_Witness ==
    /\ lastOp = Op("edit", "noname")
    /\ Len(sections) >= 2

\* C22: an import that fails (no library, unreadable file, an exception in a
\* row, an empty sheet, no valid row) and every export to Excel, DOCX or
\* PNG, whether it succeeds or fails, leave the sequence and every field of
\* every segment as they were.
C22_IoKeepsTimeline ==
    [][ /\ \A f \in ImportFiles :
              (lastOp' = Op("import", "failed") /\ ImportExcel(f))
                  => sections' = sections
        /\ \A path \in SavePaths, done \in BOOLEAN :
              /\ ExportExcel(path, done) => sections' = sections
              /\ ExportPng(path, done) => sections' = sections
        /\ \A ready \in BOOLEAN : ExportDocx(ready) => sections' = sections
      ]_vars

\* an import has failed on a timeline of two segments that was exported to
\* DOCX before
C22_Witness ==
    /\ lastOp = Op("import", "failed")
    /\ Len(sections) >= 2
    /\ tools_combined # <<>>

----------------------------------------------------------------------------
(* Properties of the drop position *)

\* the number of segments of others (the sequence without the dragged one)
\* walked before the first whose midpoint, in the layout of their cumulated
\* widths, lies right of rel_x = x - MARGIN; all of them when there is none
WalkedBefore(others, x) ==
    LET bar_width == Width - 2 * MARGIN
        right == {k \in 0 .. Len(others) - 1 :
                     2 * total_minutes * (x - MARGIN)
                         < (2 * SumDurations(SubSeq(others, 1, k))
                              + others[k + 1].duration) * bar_width}
    IN  IF right = {} THEN Len(others) ELSE FirstIndex(right)

\* C23: after the release of a drag of the segment at _drag_idx the dragged
\* segment stands immediately before the first other segment whose midpoint
\* in the walk layout is right of rel_x, or last when there is none: as many
\* other segments precede it as were walked before the first match.
C23_DropPosition ==
    [][ \A x \in ExampleReleaseXs :
          ( /\ Dragging
            /\ DraggedIndex = _drag_idx
            /\ lastOp'.op = "release"
            /\ MouseRelease(x) )
          => LET others == Without(FieldsOf(sections), _drag_idx)
                 k == WalkedBefore(others, x)
             IN  /\ Fields(sections'[k + 1]) = Fields(sections[_drag_idx + 1])
                 /\ Without(FieldsOf(sections'), k) = others
      ]_vars

\* C24: a left press on a segment followed at once by a release at the same
\* pointer position leaves the order of the sequence as it was.
C24_ClickNoop ==
    [][ \A x \in ExampleReleaseXs :
          ( /\ lastOp = Op("press", "hit")
            /\ x = _drag_x
            /\ Len(sections) >= 2
            /\ MouseRelease(x) )
          => FieldsOf(sections') = FieldsOf(sections)
      ]_vars

\* C25: whenever a drag is in progress (_drag_idx is not None), _drag_idx is
\* an index of sections and the segment at that index is the one
\* _drag_section refers to, whatever was handled since the press.
C25_DragRefValid ==
    _drag_idx # None =>
        /\ 0 <= _drag_idx /\ _drag_idx < Len(sections)
        /\ _drag_section # None
        /\ sections[_drag_idx + 1].ref

\* C26: painting changes nothing a pointer handler reads: at every left
\* press on a bar that was painted before, the bar width the press hit-test
\* uses is the widget width less both margins, the width the release, the
\* hover test and the context menu use, however resizes, paints and pointer
\* events follow each other.
C26_PressWidth ==
    [][ \A p \in PressPositions :
          (_last_width # 0 /\ MousePressLeft(p[1], p[2]))
              => _cached_bar_width = Width - 2 * MARGIN
      ]_vars

\* the cell of a row under the first recognised column that holds a value
HasValue(row, columns) ==
    \E i \in 1 .. Len(columns) : columns[i] \in DOMAIN row /\ row[columns[i]].kind # "nan"

ValueOf(row, columns) ==
    row[columns[CHOOSE i \in 1 .. Len(columns) :
                   /\ columns[i] \in DOMAIN row /\ row[columns[i]].kind # "nan"
                   /\ \A j \in 1 .. i - 1 :
                         ~(columns[j] \in DOMAIN row /\ row[columns[j]].kind # "nan")]]

\* a row with a name that is not empty and a positive whole duration
ValidRow(row) ==
    /\ HasValue(row, NameColumns)
    /\ ValueOf(row, NameColumns).kind = "str"
    /\ ~IsBlank(ValueOf(row, NameColumns))
    /\ HasValue(row, DurationColumns)
    /\ ValueOf(row, DurationColumns).kind = "int"
    /\ ValueOf(row, DurationColumns).int > 0

ValidRows(f) == SelectSeq(f.rows, ValidRow)

\* C27: an import of a readable sheet with at least one valid row ends
\* without error and leaves exactly the valid rows as the sequence, in file
\* order, with starts 0 and then the cumulated durations.
C27_ImportSuccess ==
    [][ \A f \in ImportFiles :
          ( /\ f.path # "" /\ f.pandas /\ f.readable
            /\ ValidRows(f) # <<>>
            /\ ImportExcel(f) )
          => /\ lastOp' = Op("import", "ok")
             /\ Names(sections')
                  = [i \in 1 .. Len(ValidRows(f)) |->
                        ValueOf(ValidRows(f)[i], NameColumns).str]
             /\ Durations(sections')
                  = [i \in 1 .. Len(ValidRows(f)) |->
                        ValueOf(ValidRows(f)[i], DurationColumns).int]
             /\ Contiguous(sections')
      ]_vars

\* C28: an accepted edit of the segment at index k writes that segment's
\* name, duration, organisation, explanation and tools and derives the
\* starts again; the segment keeps its index and its colour, the number and
\* the order of the segments stay, and no other segment changes in name,
\* duration, colour, organisation, explanation or tools.
C28_EditInPlace ==
    [][ \A k \in 0 .. Len(sections) - 1, v \in DialogInputs :
          (lastOp' = Op("edit", "ok") /\ EditOkStep(k, v))
          => /\ Len(sections') = Len(sections)
             /\ sections'[k + 1].color = sections[k + 1].color
             /\ sections'[k + 1].ref = sections[k + 1].ref
             /\ sections'[k + 1].name = v.name
             /\ sections'[k + 1].organisation = v.organisation
             /\ sections'[k + 1].explanation = v.explanation
             /\ sections'[k + 1].tools = v.tools
             /\ sections'[k + 1].duration >= 1
             /\ \A i \in 1 .. Len(sections) :
                   i # k + 1 => Fields(sections'[i]) = Fields(sections[i])
             /\ Contiguous(sections')
      ]_vars

\* the segment appended first as A was edited into B and kept the first
\* colour and the first place
C28_Witness ==
    /\ lastOp = Op("edit", "ok")
    /\ Len(sections) >= 2
    /\ sections[1].name = "B"
    /\ sections[1].tools = "6 cones"
    /\ sections[1].color = get_nice_color(0)
    /\ sections[2].color = get_nice_color(1)

\* C29: no two segments that are in the timeline together carry the same
\* colour of get_nice_color, that is the same colour index.
C29_ColoursDistinct ==
    \A i, j \in 1 .. Len(sections) :
        i # j => sections[i].color # sections[j].color

----------------------------------------------------------------------------
(* translation.py: TranslationManager, init_translation_system,             *)
(* change_language and tr                                                   *)

\* the language files of the lang directory: de-de and en-us, each with a
\* key of its own and one they share with fr-fr; xx-xx has no file
LangFiles ==
    "de-de" :> ("app_title" :> "Zeitplaner" @@ "reset_title" :> "Zuruecksetzen")
    @@ "en-us" :> ("app_title" :> "Time Planner" @@ "excel_files_filter" :> "Excel files")
    @@ "fr-fr" :> ("app_title" :> "Planificateur")

Languages == {"de-de", "en-us", "fr-fr", "xx-xx"}
Keys == {"app_title", "reset_title", "excel_files_filter", "docx_no_tools"}
FallbackLanguage == "de-de"

\* dict.update
Update(target_dict, other) ==
    [k \in DOMAIN target_dict \cup DOMAIN other |->
        IF k \in DOMAIN other THEN other[k] ELSE target_dict[k]]

\* TranslationManager._load_language_file: the target dict and the class
\* cache afterwards
LoadLanguageFile(language, target_dict, cache) ==
    IF language \in DOMAIN cache
    THEN [target |-> Update(target_dict, cache[language]), cache |-> cache]
    ELSE IF language \notin DOMAIN LangFiles
    THEN [target |-> target_dict, cache |-> cache]
    ELSE [target |-> Update(target_dict, LangFiles[language]),
          cache |-> [l \in DOMAIN cache \cup {language} |->
                        IF l = language THEN LangFiles[language] ELSE cache[l]]]

\* TranslationManager.load_translations on a manager m
LoadTranslations(m, cache) ==
    LET first == LoadLanguageFile(m.language, m.translations, cache)
        second == IF m.language # FallbackLanguage
                  THEN LoadLanguageFile(FallbackLanguage, m.fallback_translations,
                                        first.cache)
                  ELSE [target |-> m.fallback_translations, cache |-> first.cache]
    IN  [manager |-> [m EXCEPT !.translations = first.target,
                               !.fallback_translations = second.target],
         cache |-> second.cache]

\* TranslationManager.__init__
NewManager(language, cache) ==
    LoadTranslations(Manager(language, EmptyDict, EmptyDict, {}), cache)

\* a change of language that keeps the set of missing keys
ManagerChangeLanguageKeepMissing(m, language, cache) ==
    IF language # m.language
    THEN LoadTranslations([m EXCEPT !.language = language,
                                    !.translations = EmptyDict], cache)
    ELSE [manager |-> m, cache |-> cache]

\* TranslationManager.change_language
ManagerChangeLanguage(m, language, cache) ==
    IF language # m.language
    THEN LoadTranslations([m EXCEPT !.language = language,
                                    !.translations = EmptyDict,
                                    !._missing_keys = {}], cache)
    ELSE [manager |-> m, cache |-> cache]

\* TranslationManager.tr without formatting arguments: the text returned
\* and the set of missing keys afterwards
ManagerTr(m, key) ==
    IF key \in m._missing_keys
    THEN [text |-> key, missing |-> m._missing_keys]
    ELSE IF key \in DOMAIN m.translations
    THEN [text |-> m.translations[key], missing |-> m._missing_keys]
    ELSE IF DOMAIN m.fallback_translations # {} /\ key \in DOMAIN m.fallback_translations
    THEN [text |-> m.fallback_translations[key], missing |-> m._missing_keys]
    ELSE [text |-> key, missing |-> m._missing_keys \cup {key}]

otherVars ==
    <<total_minutes, sections, dragVars, scale10, paintVars, crashed, tools_combined>>

\* init_translation_system(language)
InitTranslationSystem(language) ==
    /\ _translation_manager' = NewManager(language, _translation_cache).manager
    /\ _translation_cache' = NewManager(language, _translation_cache).cache
    /\ lastOp' = Op("init_translation_system", language)
    /\ UNCHANGED otherVars

\* change_language(language) of the module
ChangeLanguage(language) ==
    /\ LET r == IF ~_translation_manager.made
                THEN NewManager(language, _translation_cache)
                ELSE ManagerChangeLanguage(_translation_manager, language,
                                           _translation_cache)
       IN  /\ _translation_manager' = r.manager
           /\ _translation_cache' = r.cache
    /\ lastOp' = Op("change_language", language)
    /\ UNCHANGED otherVars

\* tr(key) of the module: the manager is made on first use
Tr(key) ==
    /\ LET made == IF ~_translation_manager.made
                   THEN NewManager(FallbackLanguage, _translation_cache)
                   ELSE [manager |-> _translation_manager, cache |-> _translation_cache]
           r == ManagerTr(made.manager, key)
       IN  /\ _translation_manager' = [made.manager EXCEPT !._missing_keys = r.missing]
           /\ _translation_cache' = made.cache
           /\ lastOp' = Op("tr", r.text)
    /\ UNCHANGED otherVars

NextTr ==
    \/ \E language \in Languages : InitTranslationSystem(language)
    \/ \E language \in Languages : ChangeLanguage(language)
    \/ \E key \in Keys : Tr(key)

SpecTr == Init /\ [][NextTr]_vars

\* what a language file says about a key
Defines(language, key) ==
    language \in DOMAIN LangFiles /\ key \in DOMAIN LangFiles[language]

\* the language in force: the manager's, de-de when tr makes the manager
CurrentLanguage ==
    IF _translation_manager.made THEN _translation_manager.language
    ELSE FallbackLanguage

\* C30: whatever init_translation_system and change_language calls came
\* before, tr(key) returns the text of the current language when its file
\* defines the key, else the text of de-de when that defines it, else the
\* key; no cache makes it return another language's text or a stale
\* 'missing'.
C30_TrLookup ==
    [][ \A key \in Keys :
          Tr(key) =>
              lastOp'.res =
                  IF Defines(CurrentLanguage, key)
                  THEN LangFiles[CurrentLanguage][key]
                  ELSE IF Defines(FallbackLanguage, key)
                  THEN LangFiles[FallbackLanguage][key]
                  ELSE key
      ]_vars

\* en-us was selected before, de-de is selected now, and tr has returned a
\* key that only en-us defines as the key itself
C30_Witness ==
    /\ lastOp = Op("tr", "excel_files_filter")
    /\ _translation_manager.made
    /\ _translation_manager.language = "de-de"
    /\ "en-us" \in DOMAIN _translation_cache
====
